---------------------------- MODULE Spec2Model ----------------------------
(***************************************************************************)
(* Item inventory CRUD service: the request handlers of main.py over the   *)
(* persistence operations of crud.py, with the validation of models.py.    *)
(*                                                                         *)
(* The collection is a sequence of documents in natural (insertion) order. *)
(* Every store call (insert_one, find_one, count_documents, find,          *)
(* update_one, update_many, delete_one, aggregate) is atomic; a handler    *)
(* that awaits two store calls is two steps, and other requests may run    *)
(* between them.  Local computation of a handler is merged into the store  *)
(* call that follows it.                                                   *)
(*                                                                         *)
(* Optional[T] values are sets: None is {} and a present value v is {v}.   *)
(* Strings are sequences of one-character strings.                         *)
(* Floats are multiples of 1/FloatScale, the smallest positive value of    *)
(* the format (2^-1074 for the IEEE double of Python and of the store),    *)
(* and a product is rounded to the nearest multiple, ties to even.         *)
(***************************************************************************)
EXTENDS Integers, Sequences, FiniteSets, TLC

VARIABLES
    store,      \* the items collection: a sequence of documents
    nextOid,    \* the ObjectId generator: the next identifier it hands out
    inflight,   \* per request slot: the handler's position and its locals
    resp,       \* the response the latest step sent (NoResp if it sent none)
    removed,    \* history: the identifiers whose delete returned true
    client,     \* Database.client: None or the client object
    database,   \* Database.database: None or the database handle
    clients,    \* history: per client object made, its ping and its close() calls
    lifespan    \* lifespan's position: startup, yield, raised or shutdown

dbvars == <<client, database, clients, lifespan>>

vars ==
    <<store, nextOid, inflight, resp, removed, client, database, clients, lifespan>>

-----------------------------------------------------------------------------
(* Bounds *)

MaxInFlight == 2    \* request slots: requests that overlap
MaxItems == 2       \* documents the collection may hold
MaxOids == 3        \* identifiers the generator hands out
MaxSkip == 2        \* largest skip a list request carries
MaxLimit == 2       \* largest limit a list request carries
MaxThreshold == 2   \* largest low-stock threshold
MaxPrice == 2       \* largest stored price, in units of 1/FloatScale
OidHexLen == 2      \* hex digits of an identifier's text form
FloatScale == 2     \* representable float values per unit
MaxClients == 3     \* client objects connect_db may make
MaxCloses == 2      \* close() calls one client object may receive

Procs == 1..MaxInFlight

-----------------------------------------------------------------------------
(* Optional values *)

None == {}
Some(v) == {v}
TheValue(o) == CHOOSE v \in o : TRUE

Min(a, b) == IF a <= b THEN a ELSE b
Max(a, b) == IF a >= b THEN a ELSE b

RECURSIVE Pow(_, _)
Pow(b, e) == IF e = 0 THEN 1 ELSE b * Pow(b, e - 1)

-----------------------------------------------------------------------------
(* bson.ObjectId: the identifier handle and its text form *)

HexDigits == <<"0", "1", "2", "3", "4", "5", "6", "7",
               "8", "9", "a", "b", "c", "d", "e", "f">>

HexValue(c) == (CHOOSE k \in 1..16 : HexDigits[k] = c) - 1

\* str(ObjectId): the identifier as OidHexLen hex digits, most significant first
ObjectIdStr(oid) ==
    [i \in 1..OidHexLen |->
        HexDigits[((oid \div Pow(16, OidHexLen - i)) % 16) + 1]]

\* A validity test that checks the digits and not the length
is_valid_digits(text) ==
    \A i \in 1..Len(text) : \E k \in 1..16 : HexDigits[k] = text[i]

\* ObjectId.is_valid(text)
is_valid(text) ==
    /\ Len(text) = OidHexLen
    /\ \A i \in 1..Len(text) : \E k \in 1..16 : HexDigits[k] = text[i]

RECURSIVE HexToInt(_)
HexToInt(text) ==
    IF text = <<>> THEN 0
    ELSE 16 * HexToInt(SubSeq(text, 1, Len(text) - 1)) + HexValue(text[Len(text)])

\* ObjectId(text), for a valid text
ObjectId(text) == HexToInt(text)

-----------------------------------------------------------------------------
(* Floats *)

\* a * b / FloatScale rounded to the nearest representable value, ties to
\* even: the product of two floats.  A product below half the smallest
\* positive value underflows to 0.
FloatMul(a, b) ==
    LET n == a * b
        q == n \div FloatScale
        r == n % FloatScale
    IN  IF 2 * r > FloatScale THEN q + 1
        ELSE IF 2 * r = FloatScale THEN (IF q % 2 = 0 THEN q ELSE q + 1)
        ELSE q

-----------------------------------------------------------------------------
(* The store's regular expressions, as {"$regex": term, "$options": "i"}    *)
(* reads them: a letter or digit stands for itself, "." for any character, *)
(* "\d" for a digit, "\D" for a character that is no digit, and a          *)
(* backslash before a character that is no letter and no digit makes that  *)
(* character stand for itself.                                             *)

LetterPairs == <<<<"a", "A">>, <<"b", "B">>, <<"c", "C">>, <<"d", "D">>>>

Digits == {"0", "1", "2", "3", "4", "5", "6", "7", "8", "9"}

\* A matcher without option "i": no letter is folded
FoldCaseNone(c) == c

\* option "i": an upper-case letter is taken as its lower-case letter
FoldCase(c) ==
    IF \E k \in 1..Len(LetterPairs) : LetterPairs[k][2] = c
    THEN LetterPairs[CHOOSE k \in 1..Len(LetterPairs) : LetterPairs[k][2] = c][1]
    ELSE c

\* the pattern as a sequence of one-character matchers; a backslash that
\* ends the pattern is a syntax error
RECURSIVE RegexAtoms(_)
RegexAtoms(term) ==
    IF term = <<>> THEN <<>>
    ELSE IF Head(term) = "\\"
    THEN IF Len(term) = 1 THEN <<[kind |-> "error"]>>
         ELSE <<(CASE term[2] = "d" -> [kind |-> "digit"]
                   [] term[2] = "D" -> [kind |-> "nondigit"]
                   [] OTHER -> [kind |-> "exact", ch |-> term[2]])>>
              \o RegexAtoms(SubSeq(term, 3, Len(term)))
    ELSE IF Head(term) = "." THEN <<[kind |-> "any"]>> \o RegexAtoms(Tail(term))
    ELSE <<[kind |-> "char", ch |-> Head(term)]>> \o RegexAtoms(Tail(term))

RegexValid(term) ==
    \A k \in 1..Len(RegexAtoms(term)) : RegexAtoms(term)[k].kind # "error"

AtomMatches(atom, c) ==
    CASE atom.kind = "char" -> FoldCase(atom.ch) = FoldCase(c)
      [] atom.kind = "any" -> TRUE
      [] atom.kind = "digit" -> c \in Digits
      [] atom.kind = "nondigit" -> c \notin Digits
      [] atom.kind = "exact" -> atom.ch = c
      [] OTHER -> FALSE

\* the pattern matches somewhere in the text
RegexSearch(text, term) ==
    LET atoms == RegexAtoms(term)
    IN  \E s \in 0..(Len(text) - Len(atoms)) :
           \A k \in 1..Len(atoms) : AtomMatches(atoms[k], text[s + k])

\* {"$or": [{"name": {"$regex": ...}}, {"description": {"$regex": ...}}]}:
\* a description that is null matches no pattern
MatchesSearch(doc, term) ==
    \/ RegexSearch(doc.name, term)
    \/ /\ doc.description # None
       /\ RegexSearch(TheValue(doc.description), term)

-----------------------------------------------------------------------------
(* models.py: ItemBase / ItemCreate / ItemUpdate *)

NameMaxLength == 100
DescriptionMaxLength == 500
CategoryMaxLength == 50

Fields == {"name", "description", "price", "quantity", "category", "is_active"}
OptionalFields == {"description", "category"}

\* Constraints that take price ge 0 for gt 0
FieldOkZeroPrice(f, v) ==
    CASE f = "name" -> Len(v) >= 1 /\ Len(v) <= NameMaxLength
      [] f = "description" -> Len(v) <= DescriptionMaxLength
      [] f = "price" -> v >= 0
      [] f = "quantity" -> v >= 0
      [] f = "category" -> Len(v) <= CategoryMaxLength
      [] OTHER -> TRUE

\* Field(...) constraints shared by ItemBase and ItemUpdate, on a present value
FieldOk(f, v) ==
    CASE f = "name" -> Len(v) >= 1 /\ Len(v) <= NameMaxLength
      [] f = "description" -> Len(v) <= DescriptionMaxLength
      [] f = "price" -> v > 0
      [] f = "quantity" -> v >= 0
      [] f = "category" -> Len(v) <= CategoryMaxLength
      [] OTHER -> TRUE

\* ItemCreate(**body) validates: name, price and quantity are required,
\* description, category and is_active may be omitted (None)
ItemCreateValid(body) ==
    /\ FieldOk("name", body.name)
    /\ body.description # None => FieldOk("description", TheValue(body.description))
    /\ FieldOk("price", body.price)
    /\ FieldOk("quantity", body.quantity)
    /\ body.category # None => FieldOk("category", TheValue(body.category))

\* A dump that takes is_active as given: an omitted flag is not True
ItemCreateDumpNoDefault(body) ==
    [name |-> body.name,
     description |-> body.description,
     price |-> body.price,
     quantity |-> body.quantity,
     category |-> body.category,
     is_active |-> body.is_active = Some(TRUE)]

\* ItemCreate.model_dump(): every field, is_active defaulting to True
ItemCreateDump(body) ==
    [name |-> body.name,
     description |-> body.description,
     price |-> body.price,
     quantity |-> body.quantity,
     category |-> body.category,
     is_active |-> IF body.is_active = None THEN TRUE ELSE TheValue(body.is_active)]

\* ItemUpdate(**body) validates: every field optional, a present one constrained
ItemUpdateValid(patch) ==
    \A f \in Fields : patch[f] # None => FieldOk(f, TheValue(patch[f]))

-----------------------------------------------------------------------------
(* The collection's commands *)

Oids(coll) == {coll[i]._id : i \in 1..Len(coll)}

Index(coll, oid) == CHOOSE i \in 1..Len(coll) : coll[i]._id = oid

\* An identifier generator that hands out the smallest identifier not in use
SmallestFreeOid == CHOOSE oid \in 1..(Len(store) + 1) :
    /\ oid \notin Oids(store)
    /\ \A o \in 1..(oid - 1) : o \in Oids(store)

\* ObjectId(): an identifier no document ever had
NewObjectId == nextOid

\* An insert that numbers the documents: the identifier is the new length
insert_one_numbered(coll, doc, oid) ==
    Append(coll, [_id |-> Len(coll) + 1,
                  name |-> doc.name,
                  description |-> doc.description,
                  price |-> doc.price,
                  quantity |-> doc.quantity,
                  category |-> doc.category,
                  is_active |-> doc.is_active])

\* An insert into a collection capped at one document: the older one is dropped
insert_one_capped(coll, doc, oid) ==
    <<[_id |-> oid,
       name |-> doc.name,
       description |-> doc.description,
       price |-> doc.price,
       quantity |-> doc.quantity,
       category |-> doc.category,
       is_active |-> doc.is_active]>>

\* insert_one(doc): the document with its new _id, appended
insert_one(coll, doc, oid) ==
    Append(coll, [_id |-> oid,
                  name |-> doc.name,
                  description |-> doc.description,
                  price |-> doc.price,
                  quantity |-> doc.quantity,
                  category |-> doc.category,
                  is_active |-> doc.is_active])

\* find_one({"_id": oid}): the document, or None
find_one(coll, oid) ==
    IF oid \in Oids(coll) THEN Some(coll[Index(coll, oid)]) ELSE None

\* document["_id"] = str(document["_id"])
WithStrId(doc) == [doc EXCEPT !._id = ObjectIdStr(doc._id)]

\* A write that replaces the document: optional fields not given are dropped
ApplySetReplace(doc, upd) ==
    [f \in DOMAIN doc |->
        IF f \in DOMAIN upd THEN upd[f]
        ELSE IF f \in OptionalFields THEN None ELSE doc[f]]

\* {"$set": upd} on one document: the fields of upd, and no other
ApplySet(doc, upd) ==
    [f \in DOMAIN doc |-> IF f \in DOMAIN upd THEN upd[f] ELSE doc[f]]

matched_count(coll, oid) == IF oid \in Oids(coll) THEN 1 ELSE 0

\* An update whose filter matches every document
update_every(coll, oid, upd) ==
    [i \in 1..Len(coll) |-> ApplySet(coll[i], upd)]

\* An update that matches and writes nothing
update_one_unwritten(coll, oid, upd) == coll

\* update_one({"_id": oid}, {"$set": upd})
update_one(coll, oid, upd) ==
    [i \in 1..Len(coll) |->
        IF coll[i]._id = oid THEN ApplySet(coll[i], upd) ELSE coll[i]]

\* A delete that drops its filter
delete_many_all(coll, oid) == <<>>

\* delete_one({"_id": oid})
delete_one(coll, oid) ==
    IF oid \in Oids(coll)
    THEN LET k == Index(coll, oid)
         IN  [i \in 1..(Len(coll) - 1) |-> IF i < k THEN coll[i] ELSE coll[i + 1]]
    ELSE coll

\* A delete that reports one deletion whatever it matched
deleted_count_one(coll, oid) == 1

deleted_count(coll, oid) == IF oid \in Oids(coll) THEN 1 ELSE 0

\* Matching with $lte in place of $lt
MatchesLte(doc, query) ==
    CASE query.kind = "all" -> TRUE
      [] query.kind = "category" -> doc.category = Some(query.value)
      [] query.kind = "is_active" -> doc.is_active = TRUE
      [] query.kind = "quantity_lt" -> doc.quantity <= query.value
      [] query.kind = "search" -> MatchesSearch(doc, query.value)

\* A query document: {} | {"category": c} | {"is_active": True} |
\* {"quantity": {"$lt": n}} | the search's {"$or": [...]}
Matches(doc, query) ==
    CASE query.kind = "all" -> TRUE
      [] query.kind = "category" -> doc.category = Some(query.value)
      [] query.kind = "is_active" -> doc.is_active = TRUE
      [] query.kind = "quantity_lt" -> doc.quantity < query.value
      [] query.kind = "search" -> MatchesSearch(doc, query.value)

\* A find that drops its query
find_unfiltered(coll, query) == coll

\* find(query): the matching documents in natural order
RECURSIVE find(_, _)
find(coll, query) ==
    IF coll = <<>> THEN <<>>
    ELSE IF Matches(Head(coll), query)
         THEN <<Head(coll)>> \o find(Tail(coll), query)
         ELSE find(Tail(coll), query)

\* count_documents(query)
count_documents(coll, query) ==
    Cardinality({i \in 1..Len(coll) : Matches(coll[i], query)})

\* A page whose limit is taken as the end position
SkipLimitAsEnd(docs, skip, limit) ==
    SubSeq(docs, skip + 1, Min(Len(docs), limit))

\* cursor.skip(skip).limit(limit)
SkipLimit(docs, skip, limit) ==
    SubSeq(docs, skip + 1, Min(Len(docs), skip + limit))

\* the async-for loop: each document with its _id as text
StrIds(docs) == [i \in 1..Len(docs) |-> WithStrId(docs[i])]

\* update_many({}, [{"$set": {"price": {"$multiply": ["$price", m]}}}])
update_many_price(coll, m) ==
    [i \in 1..Len(coll) |-> [coll[i] EXCEPT !.price = FloatMul(@, m)]]

\* A bulk update that reports the documents its filter matched
modified_count_matched(coll, m) == Len(coll)

\* result.modified_count: the documents the pipeline changed
modified_count(coll, m) ==
    Cardinality({i \in 1..Len(coll) : update_many_price(coll, m)[i] # coll[i]})

\* A sum of the prices alone
RECURSIVE SumPrice(_)
SumPrice(coll) ==
    IF coll = <<>> THEN 0
    ELSE Head(coll).price + SumPrice(Tail(coll))

\* aggregate([{"$group": {"_id": None, "total_value":
\*     {"$sum": {"$multiply": ["$price", "$quantity"]}}}}]).to_list(1):
\* one group over all documents, no group over none
RECURSIVE SumValue(_)
SumValue(coll) ==
    IF coll = <<>> THEN 0
    ELSE Head(coll).price * Head(coll).quantity + SumValue(Tail(coll))

aggregate_total(coll) ==
    IF coll = <<>> THEN <<>> ELSE <<[total_value |-> SumValue(coll)]>>

-----------------------------------------------------------------------------
(* Request slots and responses *)

Idle == [pc |-> "idle"]
NoResp == [op |-> "none"]

\* An insert_one or an update's update_one ran: every list request that has
\* counted and not yet read its page has been raced by a write (history)
NoteWrite(slots) ==
    [q \in Procs |->
        IF slots[q].pc = "get_all_find" THEN [slots[q] EXCEPT !.raced = TRUE]
        ELSE slots[q]]

\* A write to the items ids ran (an update_one on one item, update_many on
\* all): every update that has written one of them and not yet re-read it
\* has been raced by that write (history)
NoteItemWrite(slots, ids) ==
    [q \in Procs |->
        IF slots[q].pc = "update_find" /\ ObjectId(slots[q].item_id) \in ids
        THEN [slots[q] EXCEPT !.raced = TRUE]
        ELSE slots[q]]

\* response_model=ItemResponseSchema: the returned record is validated again
ItemResponseValid(doc) ==
    /\ FieldOk("name", doc.name)
    /\ doc.description # None => FieldOk("description", TheValue(doc.description))
    /\ FieldOk("price", doc.price)
    /\ FieldOk("quantity", doc.quantity)
    /\ doc.category # None => FieldOk("category", TheValue(doc.category))

ListResponseValid(docs) == \A i \in 1..Len(docs) : ItemResponseValid(docs[i])

-----------------------------------------------------------------------------
(* crud.py operations with a single store call, as functions of the store *)

\* CRUDOperations.get_by_id
get_by_id(coll, item_id) ==
    IF ~is_valid(item_id) THEN None
    ELSE LET item == find_one(coll, ObjectId(item_id))
         IN  IF item # None THEN Some(WithStrId(TheValue(item))) ELSE item

\* A get_by_id that queries the store before it validates the id
get_by_id_calls_unguarded(item_id) == 1

\* the store calls get_by_id issues: none when is_valid fails, else find_one
get_by_id_calls(item_id) == IF is_valid(item_id) THEN 1 ELSE 0

\* CRUDOperations.get_total_value
get_total_value(coll) ==
    LET result == aggregate_total(coll)
    IN  IF result # <<>> THEN result[1].total_value ELSE 0

\* CRUDOperations.get_low_stock_items
get_low_stock_items(coll, threshold) ==
    StrIds(find(coll, [kind |-> "quantity_lt", value |-> threshold]))

\* A patch dumped with the quantity defaulting to 0 when it is not given
update_data_default_quantity(patch) ==
    [f \in {g \in Fields : patch[g] # None} \cup {"quantity"} |->
        IF patch[f] = None THEN 0
        ELSE IF f \in OptionalFields THEN patch[f] ELSE TheValue(patch[f])]

\* A patch filtered on truth ("if v") in place of "if v is not None"
update_data_truthy(patch) ==
    LET Truthy(f) == IF f = "is_active" THEN TheValue(patch[f])
                     ELSE IF f \in {"price", "quantity"} THEN TheValue(patch[f]) # 0
                     ELSE TheValue(patch[f]) # <<>>
    IN  [f \in {g \in Fields : patch[g] # None /\ Truthy(g)} |->
            IF f \in OptionalFields THEN patch[f] ELSE TheValue(patch[f])]

\* CRUDOperations.update: the None values removed from the dump
update_data(patch) ==
    [f \in {g \in Fields : patch[g] # None} |->
        IF f \in OptionalFields THEN patch[f] ELSE TheValue(patch[f])]

\* An update that never takes the empty-patch return
NothingToUpdateNever(patch) == FALSE

\* CRUDOperations.update: "if not update_data"
NothingToUpdate(patch) == DOMAIN update_data(patch) = {}

-----------------------------------------------------------------------------
(* Handlers *)

\* Query(...) bounds of the list endpoints
SkipMin == 0
LimitMin == 1
LimitMax == 1000
ThresholdMin == 0


\* POST /items/ : validation, then CRUDOperations.create up to its insert
create_item(p, body) ==
    /\ inflight[p].pc = "idle"
    /\ UNCHANGED dbvars
    /\ \/ /\ ~ItemCreateValid(body)
          /\ resp' = [op |-> "create", body |-> body, status |-> 422, result |-> None]
          /\ UNCHANGED <<store, nextOid, inflight, removed>>
       \/ /\ ItemCreateValid(body)
          /\ Len(store) < MaxItems
          /\ nextOid <= MaxOids
          /\ store' = insert_one(store, ItemCreateDump(body), NewObjectId)
          /\ nextOid' = nextOid + 1
          /\ inflight' = [NoteWrite(inflight) EXCEPT ![p] =
                            [pc |-> "create_find", body |-> body,
                             inserted_id |-> NewObjectId]]
          /\ resp' = NoResp
          /\ UNCHANGED removed

\* CRUDOperations.create from its re-read, and the handler's return
create_find(p) ==
    /\ inflight[p].pc = "create_find"
    /\ UNCHANGED dbvars
    /\ LET created_item == find_one(store, inflight[p].inserted_id)
       IN  resp' = IF created_item = None
                   THEN [op |-> "create", body |-> inflight[p].body,
                         status |-> 500, result |-> None]
                   ELSE [op |-> "create", body |-> inflight[p].body,
                         status |-> IF ItemResponseValid(TheValue(created_item))
                                    THEN 201 ELSE 500,
                         result |-> Some(WithStrId(TheValue(created_item)))]
    /\ inflight' = [inflight EXCEPT ![p] = Idle]
    /\ UNCHANGED <<store, nextOid, removed>>

\* GET /items/{item_id}
get_item(p, item_id) ==
    /\ inflight[p].pc = "idle"
    /\ UNCHANGED dbvars
    /\ LET item == get_by_id(store, item_id)
       IN  resp' = [op |-> "get_by_id", store_calls |-> get_by_id_calls(item_id), item_id |-> item_id,
                    status |-> IF item = None THEN 404
                               ELSE IF ItemResponseValid(TheValue(item)) THEN 200
                               ELSE 500,
                    result |-> item]
    /\ UNCHANGED <<store, nextOid, inflight, removed>>

\* PUT /items/{item_id} : validation, then CRUDOperations.update up to its write
update_item(p, item_id, item_update) ==
    /\ inflight[p].pc = "idle"
    /\ UNCHANGED dbvars
    /\ \/ /\ ~ItemUpdateValid(item_update)
          /\ resp' = [op |-> "update", store_calls |-> 0, item_id |-> item_id, patch |-> item_update,
                      status |-> 422, result |-> None]
          /\ UNCHANGED <<store, nextOid, inflight, removed>>
       \/ /\ ItemUpdateValid(item_update)
          /\ \/ ~is_valid(item_id)
             \/ NothingToUpdate(item_update)
          /\ resp' = [op |-> "update", store_calls |-> 0, item_id |-> item_id, patch |-> item_update,
                      status |-> 404, result |-> None]
          /\ UNCHANGED <<store, nextOid, inflight, removed>>
       \/ /\ ItemUpdateValid(item_update)
          /\ is_valid(item_id)
          /\ ~NothingToUpdate(item_update)
          /\ store' = update_one(store, ObjectId(item_id), update_data(item_update))
          /\ IF matched_count(store, ObjectId(item_id)) = 0
             THEN /\ resp' = [op |-> "update", store_calls |-> 1, item_id |-> item_id,
                              patch |-> item_update, status |-> 404, result |-> None]
                  /\ UNCHANGED inflight
             ELSE /\ resp' = NoResp
                  /\ inflight' = [NoteItemWrite(NoteWrite(inflight),
                                                {ObjectId(item_id)}) EXCEPT ![p] =
                                    [pc |-> "update_find", item_id |-> item_id,
                                     patch |-> item_update, raced |-> FALSE]]
          /\ UNCHANGED <<nextOid, removed>>

\* CRUDOperations.update from its re-read, and the handler's return
update_find(p) ==
    /\ inflight[p].pc = "update_find"
    /\ UNCHANGED dbvars
    /\ LET updated_item == find_one(store, ObjectId(inflight[p].item_id))
       IN  resp' = IF updated_item = None
                   THEN [op |-> "update", store_calls |-> 2, item_id |-> inflight[p].item_id,
                         patch |-> inflight[p].patch, status |-> 500, result |-> None]
                   ELSE [op |-> "update", store_calls |-> 2, item_id |-> inflight[p].item_id,
                         patch |-> inflight[p].patch,
                         status |-> IF ItemResponseValid(TheValue(updated_item))
                                    THEN 200 ELSE 500,
                         result |-> Some(WithStrId(TheValue(updated_item)))]
    /\ inflight' = [inflight EXCEPT ![p] = Idle]
    /\ UNCHANGED <<store, nextOid, removed>>

\* DELETE /items/{item_id}
delete_item(p, item_id) ==
    /\ inflight[p].pc = "idle"
    /\ UNCHANGED dbvars
    /\ IF ~is_valid(item_id)
       THEN /\ resp' = [op |-> "delete", store_calls |-> 0, item_id |-> item_id, status |-> 404,
                        result |-> FALSE]
            /\ UNCHANGED <<store, removed>>
       ELSE LET deleted == deleted_count(store, ObjectId(item_id)) > 0
            IN  /\ store' = delete_one(store, ObjectId(item_id))
                /\ resp' = [op |-> "delete", store_calls |-> 1, item_id |-> item_id,
                            status |-> IF deleted THEN 204 ELSE 404,
                            result |-> deleted]
                /\ removed' = IF deleted THEN removed \cup {ObjectId(item_id)}
                              ELSE removed
    /\ UNCHANGED <<nextOid, inflight>>

\* PATCH /items/{item_id}/deactivate : CRUDOperations.soft_delete up to its write
deactivate_item(p, item_id) ==
    /\ inflight[p].pc = "idle"
    /\ UNCHANGED dbvars
    /\ IF ~is_valid(item_id)
       THEN /\ resp' = [op |-> "soft_delete", store_calls |-> 0, item_id |-> item_id, status |-> 404,
                        result |-> None]
            /\ UNCHANGED <<store, inflight>>
       ELSE /\ store' = update_one(store, ObjectId(item_id),
                                   [f \in {"is_active"} |-> FALSE])
            /\ IF matched_count(store, ObjectId(item_id)) = 0
               THEN /\ resp' = [op |-> "soft_delete", store_calls |-> 1, item_id |-> item_id,
                                status |-> 404, result |-> None]
                    /\ UNCHANGED inflight
               ELSE /\ resp' = NoResp
                    /\ inflight' = [NoteItemWrite(inflight, {ObjectId(item_id)})
                                      EXCEPT ![p] =
                                      [pc |-> "soft_delete_find", item_id |-> item_id]]
    /\ UNCHANGED <<nextOid, removed>>

\* CRUDOperations.soft_delete from its re-read, and the handler's return
soft_delete_find(p) ==
    /\ inflight[p].pc = "soft_delete_find"
    /\ UNCHANGED dbvars
    /\ LET updated_item == find_one(store, ObjectId(inflight[p].item_id))
       IN  resp' = IF updated_item = None
                   THEN [op |-> "soft_delete", store_calls |-> 2, item_id |-> inflight[p].item_id,
                         status |-> 500, result |-> None]
                   ELSE [op |-> "soft_delete", store_calls |-> 2, item_id |-> inflight[p].item_id,
                         status |-> IF ItemResponseValid(TheValue(updated_item))
                                    THEN 200 ELSE 500,
                         result |-> Some(WithStrId(TheValue(updated_item)))]
    /\ inflight' = [inflight EXCEPT ![p] = Idle]
    /\ UNCHANGED <<store, nextOid, removed>>

\* GET /items/, /items/category/{category}, /items/active/ :
\* CRUDOperations.get_all up to its count_documents
get_all_count(p, skip, limit, query) ==
    /\ inflight[p].pc = "idle"
    /\ UNCHANGED dbvars
    /\ IF skip < SkipMin \/ limit < LimitMin \/ limit > LimitMax
       THEN /\ resp' = [op |-> "get_all", skip |-> skip, limit |-> limit,
                        query |-> query, status |-> 422, items |-> <<>>,
                        total |-> 0, raced |-> FALSE]
            /\ UNCHANGED inflight
       ELSE /\ inflight' = [inflight EXCEPT ![p] =
                              [pc |-> "get_all_find", skip |-> skip,
                               limit |-> limit, query |-> query,
                               total |-> count_documents(store, query),
                               raced |-> FALSE]]
            /\ resp' = NoResp
    /\ UNCHANGED <<store, nextOid, removed>>

\* CRUDOperations.get_all from its find, and the handler's return
get_all_find(p) ==
    /\ inflight[p].pc = "get_all_find"
    /\ UNCHANGED dbvars
    /\ LET items == StrIds(SkipLimit(find(store, inflight[p].query),
                                     inflight[p].skip, inflight[p].limit))
       IN  resp' = [op |-> "get_all", skip |-> inflight[p].skip,
                    limit |-> inflight[p].limit, query |-> inflight[p].query,
                    status |-> IF ListResponseValid(items) THEN 200 ELSE 500,
                    items |-> items, total |-> inflight[p].total,
                    raced |-> inflight[p].raced]
    /\ inflight' = [inflight EXCEPT ![p] = Idle]
    /\ UNCHANGED <<store, nextOid, removed>>

\* Query(..., min_length=1) of the search term
SearchTermMinLength == 1

\* GET /items/search/ : CRUDOperations.search up to get_all's count_documents,
\* which the store refuses when the pattern is no regular expression
search_items(p, q, skip, limit) ==
    /\ inflight[p].pc = "idle"
    /\ UNCHANGED dbvars
    /\ LET query == [kind |-> "search", value |-> q]
       IN  IF \/ Len(q) < SearchTermMinLength
              \/ skip < SkipMin \/ limit < LimitMin \/ limit > LimitMax
           THEN /\ resp' = [op |-> "get_all", skip |-> skip, limit |-> limit,
                            query |-> query, status |-> 422, items |-> <<>>,
                            total |-> 0, raced |-> FALSE]
                /\ UNCHANGED inflight
           ELSE IF ~RegexValid(q)
           THEN /\ resp' = [op |-> "get_all", skip |-> skip, limit |-> limit,
                            query |-> query, status |-> 500, items |-> <<>>,
                            total |-> 0, raced |-> FALSE]
                /\ UNCHANGED inflight
           ELSE /\ inflight' = [inflight EXCEPT ![p] =
                                  [pc |-> "get_all_find", skip |-> skip,
                                   limit |-> limit, query |-> query,
                                   total |-> count_documents(store, query),
                                   raced |-> FALSE]]
                /\ resp' = NoResp
    /\ UNCHANGED <<store, nextOid, removed>>

\* GET /items/low-stock/
low_stock_items(p, threshold) ==
    /\ inflight[p].pc = "idle"
    /\ UNCHANGED dbvars
    /\ IF threshold < ThresholdMin
       THEN resp' = [op |-> "low_stock", threshold |-> threshold,
                     status |-> 422, items |-> <<>>]
       ELSE LET items == get_low_stock_items(store, threshold)
            IN  resp' = [op |-> "low_stock", threshold |-> threshold,
                         status |-> IF ListResponseValid(items) THEN 200 ELSE 500,
                         items |-> items]
    /\ UNCHANGED <<store, nextOid, inflight, removed>>

\* GET /stats/total-value
get_total_inventory_value(p) ==
    /\ inflight[p].pc = "idle"
    /\ UNCHANGED dbvars
    /\ resp' = [op |-> "total_value", status |-> 200,
                result |-> get_total_value(store)]
    /\ UNCHANGED <<store, nextOid, inflight, removed>>

\* POST /items/bulk/update-prices?multiplier=
bulk_update_prices(p, multiplier) ==
    /\ inflight[p].pc = "idle"
    /\ UNCHANGED dbvars
    /\ IF ~(multiplier > 0)
       THEN /\ resp' = [op |-> "bulk_update_prices", multiplier |-> multiplier,
                        status |-> 422, modified_count |-> 0]
            /\ UNCHANGED <<store, inflight>>
       ELSE /\ \A i \in 1..Len(store) : FloatMul(store[i].price, multiplier) <= MaxPrice
            /\ store' = update_many_price(store, multiplier)
            /\ resp' = [op |-> "bulk_update_prices", multiplier |-> multiplier,
                        status |-> 200,
                        modified_count |-> modified_count(store, multiplier)]
            /\ inflight' = NoteItemWrite(inflight, Oids(store))
    /\ UNCHANGED <<nextOid, removed>>

-----------------------------------------------------------------------------
(* Store failures: a store call raises (the server is unreachable, the     *)
(* call times out) and applies nothing; no handler catches, so the request *)
(* ends with 500.                                                          *)

\* create: insert_one raises
create_insert_raises(p, body) ==
    /\ inflight[p].pc = "idle"
    /\ UNCHANGED dbvars
    /\ ItemCreateValid(body)
    /\ resp' = [op |-> "create", body |-> body, status |-> 500, result |-> None,
                failed |-> "insert_one", inserted_id |-> None]
    /\ UNCHANGED <<store, nextOid, inflight, removed>>

\* create: the re-read find_one raises
create_find_raises(p) ==
    /\ inflight[p].pc = "create_find"
    /\ UNCHANGED dbvars
    /\ resp' = [op |-> "create", body |-> inflight[p].body, status |-> 500,
                result |-> None, failed |-> "find_one",
                inserted_id |-> Some(inflight[p].inserted_id)]
    /\ inflight' = [inflight EXCEPT ![p] = Idle]
    /\ UNCHANGED <<store, nextOid, removed>>

\* update: update_one raises
update_write_raises(p, item_id, item_update) ==
    /\ inflight[p].pc = "idle"
    /\ UNCHANGED dbvars
    /\ ItemUpdateValid(item_update)
    /\ is_valid(item_id)
    /\ ~NothingToUpdate(item_update)
    /\ resp' = [op |-> "update", store_calls |-> 1, item_id |-> item_id, patch |-> item_update,
                status |-> 500, result |-> None, failed |-> "update_one"]
    /\ UNCHANGED <<store, nextOid, inflight, removed>>

\* update: the re-read find_one raises
update_find_raises(p) ==
    /\ inflight[p].pc = "update_find"
    /\ UNCHANGED dbvars
    /\ resp' = [op |-> "update", store_calls |-> 2, item_id |-> inflight[p].item_id,
                patch |-> inflight[p].patch, status |-> 500, result |-> None,
                failed |-> "find_one"]
    /\ inflight' = [inflight EXCEPT ![p] = Idle]
    /\ UNCHANGED <<store, nextOid, removed>>

\* soft_delete: update_one raises
soft_delete_write_raises(p, item_id) ==
    /\ inflight[p].pc = "idle"
    /\ UNCHANGED dbvars
    /\ is_valid(item_id)
    /\ resp' = [op |-> "soft_delete", store_calls |-> 1, item_id |-> item_id, status |-> 500,
                result |-> None, failed |-> "update_one"]
    /\ UNCHANGED <<store, nextOid, inflight, removed>>

\* soft_delete: the re-read find_one raises
soft_delete_find_raises(p) ==
    /\ inflight[p].pc = "soft_delete_find"
    /\ UNCHANGED dbvars
    /\ resp' = [op |-> "soft_delete", store_calls |-> 2, item_id |-> inflight[p].item_id,
                status |-> 500, result |-> None, failed |-> "find_one"]
    /\ inflight' = [inflight EXCEPT ![p] = Idle]
    /\ UNCHANGED <<store, nextOid, removed>>

-----------------------------------------------------------------------------
(* database.py: the connection manager.  A client object is named by its   *)
(* position in clients; its database handle carries the same name.         *)

\* Database.connect_db: both fields are assigned before the ping, and the
\* except clause re-raises without resetting them
connect_db(ping_ok) ==
    /\ Len(clients) < MaxClients
    /\ client' = Some(Len(clients) + 1)
    /\ database' = Some(Len(clients) + 1)
    /\ clients' = Append(clients, [ping_ok |-> ping_ok, closes |-> 0])
    /\ resp' = [op |-> "connect_db", raised |-> ~ping_ok]
    /\ UNCHANGED <<store, nextOid, inflight, removed>>

\* Database.close_db: "if cls.client" closes the client; no field is reset
close_db ==
    /\ IF client # None
       THEN /\ clients[TheValue(client)].closes < MaxCloses
            /\ clients' = [clients EXCEPT ![TheValue(client)].closes = @ + 1]
            /\ resp' = [op |-> "close_db", closed |-> TRUE]
       ELSE /\ resp' = [op |-> "close_db", closed |-> FALSE]
            /\ UNCHANGED clients
    /\ UNCHANGED <<client, database, store, nextOid, inflight, removed>>

\* Database.get_database
get_database ==
    /\ resp' = [op |-> "get_database", raised |-> database = None,
                result |-> database]
    /\ UNCHANGED <<client, database, clients, store, nextOid, inflight, removed>>

\* A lifespan whose startup swallows the failure of connect_db
lifespan_startup_swallowing(ping_ok) ==
    /\ lifespan = "startup"
    /\ connect_db(ping_ok)
    /\ lifespan' = "yield"

\* lifespan up to its yield: connect_db; when it raises, the application
\* does not start
lifespan_startup(ping_ok) ==
    /\ lifespan = "startup"
    /\ connect_db(ping_ok)
    /\ lifespan' = IF ping_ok THEN "yield" ELSE "raised"

\* lifespan after its yield: the server has stopped taking requests and
\* those in flight have ended; close_db
lifespan_shutdown ==
    /\ lifespan = "yield"
    /\ \A p \in Procs : inflight[p].pc = "idle"
    /\ close_db
    /\ lifespan' = "shutdown"

-----------------------------------------------------------------------------
(* Requests the clients send *)

Name1 == <<"a">>
Name2 == <<"A", "b">>
LongName == [i \in 1..(NameMaxLength + 1) |-> "a"]
Text1 == <<"b">>
Cat1 == <<"c">>

Body(n, d, pr, q, c, a) ==
    [name |-> n, description |-> d, price |-> pr, quantity |-> q,
     category |-> c, is_active |-> a]

\* price 1 is the smallest positive float, price FloatScale is 1.0
ValidBodies ==
    {Body(Name1, None, 1, 0, None, None),
     Body(Name2, Some(Text1), FloatScale, 2, Some(Cat1), Some(FALSE))}

InvalidBodies ==
    {Body(<<>>, None, 1, 0, None, None),
     Body(LongName, None, 1, 0, None, None),
     Body(Name1, None, 0, 0, None, None),
     Body(Name1, None, -1, 0, None, None),
     Body(Name1, None, 1, -1, None, None)}

EmptyPatch == Body(None, None, None, None, None, None)

\* a partial patch, a patch of every field, and a deactivating patch
ValidPatches ==
    {EmptyPatch,
     Body(None, None, Some(FloatScale), Some(2), None, None),
     Body(Some(Name2), Some(Text1), Some(FloatScale), Some(2), Some(Cat1), Some(FALSE)),
     Body(None, None, None, None, None, Some(FALSE))}

InvalidPatches ==
    {Body(Some(<<>>), None, None, None, None, None),
     Body(None, None, Some(0), Some(-1), None, None)}

MalformedIds == {<<"z", "z">>, <<"1">>}
IdTexts == {ObjectIdStr(oid) : oid \in 1..MaxOids} \cup MalformedIds

\* <<skip, limit>> pairs the list endpoints reject
RejectedPages == {<<-1, 1>>, <<0, 0>>, <<0, LimitMax + 1>>}

Queries ==
    {[kind |-> "all"], [kind |-> "category", value |-> Cat1], [kind |-> "is_active"]}

\* 0.5 and 2.0, and the rejected 0
Multipliers == {0, 1, 2 * FloatScale}

AllInputs ==
    [bodies |-> ValidBodies \cup InvalidBodies,
     patches |-> ValidPatches \cup InvalidPatches,
     ids |-> IdTexts,
     pages |-> ((0..MaxSkip) \X (1..MaxLimit)) \cup RejectedPages,
     queries |-> Queries,
     thresholds |-> -1..MaxThreshold,
     multipliers |-> Multipliers]

\* The requests sent while other requests are in flight
FewInputs ==
    [bodies |-> {Body(Name1, None, 1, 0, None, None),
                 Body(Name1, None, 1, -1, None, None)},
     patches |-> {EmptyPatch,
                  Body(None, None, Some(FloatScale), None, None, None),
                  Body(None, None, None, Some(2), None, None),
                  Body(None, None, None, Some(-1), None, None)},
     ids |-> {ObjectIdStr(1)},
     pages |-> {<<0, MaxLimit>>},
     queries |-> {[kind |-> "is_active"]},
     thresholds |-> {1},
     multipliers |-> {1}]

-----------------------------------------------------------------------------
(* Specifications *)

\* The service once lifespan's startup has connected
Init ==
    /\ store = <<>>
    /\ nextOid = 1
    /\ inflight = [p \in Procs |-> Idle]
    /\ resp = NoResp
    /\ removed = {}
    /\ client = Some(1)
    /\ database = Some(1)
    /\ clients = <<[ping_ok |-> TRUE, closes |-> 0]>>
    /\ lifespan = "yield"

Step(p, in) ==
    \/ \E body \in in.bodies : create_item(p, body)
    \/ create_find(p)
    \/ \E item_id \in in.ids : get_item(p, item_id)
    \/ \E item_id \in in.ids, patch \in in.patches : update_item(p, item_id, patch)
    \/ update_find(p)
    \/ \E item_id \in in.ids : delete_item(p, item_id)
    \/ \E item_id \in in.ids : deactivate_item(p, item_id)
    \/ soft_delete_find(p)
    \/ \E page \in in.pages, query \in in.queries :
          get_all_count(p, page[1], page[2], query)
    \/ get_all_find(p)
    \/ \E threshold \in in.thresholds : low_stock_items(p, threshold)
    \/ get_total_inventory_value(p)
    \/ \E multiplier \in in.multipliers : bulk_update_prices(p, multiplier)

\* Requests overlap: any slot may take its next step
Next == \E p \in Procs : Step(p, FewInputs)

Spec == Init /\ [][Next]_vars

\* One request at a time: each runs to its response before the next starts
SerialNext == Step(1, AllInputs)

SerialSpec == Init /\ [][SerialNext]_vars

\* Searches over a small corpus, one request at a time
SearchBodies ==
    {Body(<<"a", "1">>, None, 1, 0, None, None),
     Body(<<"B">>, Some(<<"A">>), 1, 0, None, None),
     Body(<<"b", "c">>, Some(<<>>), 1, 0, None, None)}

\* letters in both cases, the digit classes, the wildcard, a pattern the
\* store refuses and the empty term the router refuses
SearchTerms ==
    {<<"a">>, <<"A">>, <<"b", "C">>, <<"B", "c">>, <<"\\", "d">>, <<"\\", "D">>,
     <<".">>, <<"\\">>, <<>>}

SearchPages == {<<0, 1>>, <<0, MaxLimit>>, <<1, 1>>}

SearchNext ==
    \/ \E body \in SearchBodies : create_item(1, body)
    \/ create_find(1)
    \/ \E oid \in 1..MaxOids : delete_item(1, ObjectIdStr(oid))
    \/ \E q \in SearchTerms, page \in SearchPages :
          search_items(1, q, page[1], page[2])
    \/ get_all_find(1)

SearchSpec == Init /\ [][SearchNext]_vars

\* The connection manager from import time: nothing connected yet
DbInit ==
    /\ store = <<>>
    /\ nextOid = 1
    /\ inflight = [p \in Procs |-> Idle]
    /\ resp = NoResp
    /\ removed = {}
    /\ client = None
    /\ database = None
    /\ clients = <<>>
    /\ lifespan = "startup"

\* The Database methods called directly, lifespan not running
DbNext ==
    \/ \E ping_ok \in BOOLEAN : connect_db(ping_ok) /\ UNCHANGED lifespan
    \/ close_db /\ UNCHANGED lifespan
    \/ get_database /\ UNCHANGED lifespan

DbSpec == DbInit /\ [][DbNext]_vars

\* Requests addressed by id, one at a time: every id text, both bodies,
\* a partial patch and the rejected bodies and patches
IdInputs ==
    [bodies |-> ValidBodies \cup InvalidBodies,
     patches |-> {EmptyPatch,
                  Body(None, None, Some(FloatScale), Some(2), None, None)}
                 \cup InvalidPatches,
     ids |-> IdTexts,
     pages |-> {<<0, 1>>},
     queries |-> {[kind |-> "all"]},
     thresholds |-> {1},
     multipliers |-> {0}]

IdNext == Step(1, IdInputs)

IdSpec == Init /\ [][IdNext]_vars

\* One request at a time, over a store whose calls may fail
FaultNext ==
    \/ Step(1, FewInputs)
    \/ \E body \in FewInputs.bodies : create_insert_raises(1, body)
    \/ create_find_raises(1)
    \/ \E item_id \in FewInputs.ids, patch \in FewInputs.patches :
          update_write_raises(1, item_id, patch)
    \/ update_find_raises(1)
    \/ \E item_id \in FewInputs.ids : soft_delete_write_raises(1, item_id)
    \/ soft_delete_find_raises(1)

FaultSpec == Init /\ [][FaultNext]_vars

\* Every operation of the service, one request at a time, over two
\* well-formed ids: an item without and one with description and category, a quantity patch and a deactivating patch, prices halved, kept and
\* doubled, and a search
OpsInputs ==
    [bodies |-> {Body(Name1, None, 1, 0, None, None),
                 Body(Name2, Some(Text1), FloatScale, 0, Some(Cat1), None)},
     patches |-> {EmptyPatch,
                  Body(None, None, None, Some(2), None, None),
                  Body(None, None, None, None, None, Some(FALSE))},
     ids |-> {ObjectIdStr(1), ObjectIdStr(2)},
     pages |-> {<<0, 1>>},
     queries |-> Queries,
     thresholds |-> {1},
     multipliers |-> {0, 1, FloatScale, 2 * FloatScale}]

OpsNext ==
    \/ Step(1, OpsInputs)
    \/ search_items(1, Name1, 0, 1)

OpsSpec == Init /\ [][OpsNext]_vars

\* The application from import time to shutdown, one request at a time:
\* the server hands a request to its handler only while lifespan is
\* suspended at its yield
LifeNext ==
    \/ \E ping_ok \in BOOLEAN : lifespan_startup(ping_ok)
    \/ lifespan = "yield" /\ Step(1, FewInputs)
    \/ lifespan_shutdown

LifeSpec == DbInit /\ [][LifeNext]_vars

-----------------------------------------------------------------------------
(* Properties *)

IdSeq(coll) == [i \in 1..Len(coll) |-> coll[i]._id]

\* C1: in serial use, after create returns for a valid input, get_by_id on
\* the returned id yields the input's name, description, price, quantity,
\* category and is_active (true when the input omitted it), and the
\* identifier is the only added field.
C1_CreateThenGetById ==
    (resp.op = "create" /\ ItemCreateValid(resp.body)) =>
        /\ resp.status = 201
        /\ resp.result # None
        /\ LET item == get_by_id(store, TheValue(resp.result)._id)
           IN  /\ item # None
               /\ item = resp.result
               /\ DOMAIN TheValue(item) = Fields \cup {"_id"}
               /\ TheValue(item).name = resp.body.name
               /\ TheValue(item).description = resp.body.description
               /\ TheValue(item).price = resp.body.price
               /\ TheValue(item).quantity = resp.body.quantity
               /\ TheValue(item).category = resp.body.category
               /\ TheValue(item).is_active =
                     (resp.body.is_active = None \/ resp.body.is_active = Some(TRUE))

\* a create whose input omitted is_active, description and category returned
C1_Witness ==
    /\ resp.op = "create"
    /\ resp.status = 201
    /\ resp.body.is_active = None
    /\ resp.body.description = None
    /\ Len(store) = 2

\* C2: the write of update(id, patch), for an existing item and a patch with a
\* non-null field, sets that item's patched fields to the patch values and
\* leaves its other fields, its identifier and every other item unchanged.
C2_UpdateFrame ==
    [][\A p \in Procs :
          (inflight[p].pc = "idle" /\ inflight'[p].pc = "update_find") =>
             LET oid == ObjectId(inflight'[p].item_id)
                 patch == inflight'[p].patch
             IN  /\ oid \in Oids(store)
                 /\ \E f \in Fields : patch[f] # None
                 /\ Len(store') = Len(store)
                 /\ \A i \in 1..Len(store) :
                       IF store[i]._id = oid
                       THEN /\ store'[i]._id = oid
                            /\ \A f \in Fields :
                                  IF patch[f] = None THEN store'[i][f] = store[i][f]
                                  ELSE IF f \in OptionalFields
                                       THEN store'[i][f] = patch[f]
                                       ELSE store'[i][f] = TheValue(patch[f])
                       ELSE store'[i] = store[i]]_vars

\* an update of one of two items with a partial patch has returned the item
C2_Witness ==
    /\ resp.op = "update"
    /\ resp.status = 200
    /\ resp.patch.name = None
    /\ resp.patch.price # None
    /\ Len(store) = 2
    /\ TheValue(resp.result).price = TheValue(resp.patch.price)
    /\ \E i \in 1..2 : store[i].price # TheValue(resp.patch.price)

\* C3: update with an all-absent patch answers not-found (404) whether or not
\* the id exists, and leaves the store unchanged.
C3_EmptyPatchNotFound ==
    [][(resp'.op = "update" /\ resp'.patch = EmptyPatch) =>
          /\ resp'.status = 404
          /\ resp'.result = None
          /\ store' = store]_vars

\* an empty patch was sent for an item that exists
C3_Witness ==
    /\ resp.op = "update"
    /\ resp.patch = EmptyPatch
    /\ is_valid(resp.item_id)
    /\ ObjectId(resp.item_id) \in Oids(store)

\* C4: once delete(id) has returned true, the item is absent from the store
\* and get_by_id(id) returns not-found in every later state, whatever runs
\* afterwards or was in flight at the delete.
C4_DeletedStaysDeleted ==
    \A oid \in removed :
        /\ oid \notin Oids(store)
        /\ get_by_id(store, ObjectIdStr(oid)) = None

\* an item was deleted while an update of it was in flight, and an item was
\* created after the delete
C4_Witness ==
    /\ \E oid \in removed :
          /\ \E p \in Procs :
                /\ inflight[p].pc = "update_find"
                /\ inflight[p].item_id = ObjectIdStr(oid)
          /\ \E i \in 1..Len(store) : store[i]._id > oid

\* C5: every stored item has price > 0, quantity >= 0 and a name of length
\* 1 to 100, after any sequence of requests through the endpoints.
C5_StoredItemsValid ==
    \A i \in 1..Len(store) :
        /\ store[i].price > 0
        /\ store[i].quantity >= 0
        /\ Len(store[i].name) >= 1
        /\ Len(store[i].name) <= NameMaxLength

\* C6: no two stored items share an identifier, and every step leaves the
\* identifiers of the stored items as they were, appends one item with an
\* identifier never handed out before, or removes one item.
C6_IdentifierUniqueAndFixed ==
    [][/\ \A i, j \in 1..Len(store') :
             store'[i]._id = store'[j]._id => i = j
       /\ \/ IdSeq(store') = IdSeq(store)
          \/ /\ Len(store') = Len(store) + 1
             /\ SubSeq(IdSeq(store'), 1, Len(store)) = IdSeq(store)
             /\ store'[Len(store')]._id \notin Oids(store) \cup removed
          \/ /\ Len(store') = Len(store) - 1
             /\ \E k \in 1..Len(store) :
                   IdSeq(store') =
                      SubSeq(IdSeq(store), 1, k - 1) \o
                      SubSeq(IdSeq(store), k + 1, Len(store))]_vars

\* two items are stored, created after an earlier item was deleted, and a
\* bulk update has modified both
C6_Witness ==
    /\ Len(store) = 2
    /\ removed # {}
    /\ store[1]._id > 1
    /\ resp.op = "bulk_update_prices"
    /\ resp.modified_count = 2

\* C7: in serial use, get_all(skip, limit, filter) over a store with n
\* matching items returns a page of min(limit, max(0, n - skip)) items, all
\* matching, and total = n.
C7_PageAndTotal ==
    (resp.op = "get_all" /\ resp.status # 422) =>
        LET n == Cardinality({i \in 1..Len(store) : Matches(store[i], resp.query)})
        IN  /\ Len(resp.items) = Min(resp.limit, Max(0, n - resp.skip))
            /\ resp.total = n
            /\ \A k \in 1..Len(resp.items) :
                  \E i \in 1..Len(store) :
                     /\ Matches(store[i], resp.query)
                     /\ resp.items[k] = WithStrId(store[i])

\* a filtered list skipped one of two matching items and returned the other
C7_Witness ==
    /\ resp.op = "get_all"
    /\ resp.query.kind = "is_active"
    /\ resp.skip = 1
    /\ resp.total = 2
    /\ Len(resp.items) = 1

\* C8 as claimed: every get_all returns a total at least the size of its page
C8_TotalAtLeastPage ==
    (resp.op = "get_all" /\ resp.status # 422) => resp.total >= Len(resp.items)

\* C8 amended: a get_all returns a total at least the size of its page when
\* no insert and no update's write ran between its count and its find;
\* deletes, deactivations and bulk price updates in between preserve it.
C8_TotalAtLeastPageUnlessRaced ==
    (resp.op = "get_all" /\ resp.status # 422 /\ ~resp.raced) =>
        resp.total >= Len(resp.items)

\* a list counted an item that was gone when it read its page
C8_Witness ==
    /\ resp.op = "get_all"
    /\ ~resp.raced
    /\ resp.skip = 0
    /\ resp.total > Len(resp.items)
    /\ resp.total <= resp.limit

\* the sum over the first n documents of price * quantity
RECURSIVE C9_Sum(_, _)
C9_Sum(coll, n) ==
    IF n = 0 THEN 0 ELSE coll[n].price * coll[n].quantity + C9_Sum(coll, n - 1)

C9_Item(pr, q) ==
    [_id |-> 1, name |-> Name1, description |-> None, price |-> pr * FloatScale,
     quantity |-> q, category |-> None, is_active |-> TRUE]

\* C9: get_total_value returns the sum over the stored items of
\* price * quantity, 0 for the empty collection, and 650 for items
\* (100, 2), (50, 5), (200, 1).
C9_TotalValue ==
    /\ resp.op = "total_value" =>
          /\ resp.result = C9_Sum(store, Len(store))
          /\ store = <<>> => resp.result = 0
    /\ get_total_value(<<C9_Item(100, 2), C9_Item(50, 5), C9_Item(200, 1)>>)
          = 650 * FloatScale

\* the total of two items of different value was returned
C9_Witness ==
    /\ resp.op = "total_value"
    /\ Len(store) = 2
    /\ store[1].price * store[1].quantity > 0
    /\ store[2].price * store[2].quantity > store[1].price * store[1].quantity
    /\ resp.result > store[2].price * store[2].quantity

\* C10: get_low_stock_items(threshold) returns each stored item whose
\* quantity is below threshold exactly once and no other item; for
\* threshold 0 it returns nothing.
C10_LowStock ==
    (resp.op = "low_stock" /\ resp.status # 422) =>
        /\ {resp.items[k] : k \in 1..Len(resp.items)} =
              {WithStrId(store[i]) :
                 i \in {j \in 1..Len(store) : store[j].quantity < resp.threshold}}
        /\ Len(resp.items) =
              Cardinality({j \in 1..Len(store) : store[j].quantity < resp.threshold})
        /\ resp.threshold = 0 => resp.items = <<>>

\* of two items, the one below the threshold was returned and the one at the
\* threshold was not
C10_Witness ==
    /\ resp.op = "low_stock"
    /\ Len(store) = 2
    /\ Len(resp.items) = 1
    /\ \E i \in 1..2 : store[i].quantity = resp.threshold

\* two characters that are one letter in either case, or the same character
C11_SameLetter(c1, c2) ==
    \/ c1 = c2
    \/ \E k \in 1..Len(LetterPairs) : {c1, c2} = {LetterPairs[k][1], LetterPairs[k][2]}

C11_DifferOnlyInCase(t1, t2) ==
    /\ Len(t1) = Len(t2)
    /\ \A i \in 1..Len(t1) : C11_SameLetter(t1[i], t2[i])

\* what search(term, skip, limit) returns over the store as it is
C11_Search(term, skip, limit) ==
    [items |-> StrIds(SkipLimit(find(store, [kind |-> "search", value |-> term]),
                                skip, limit)),
     total |-> count_documents(store, [kind |-> "search", value |-> term])]

C12_Deactivated(coll, oid) ==
    [i \in 1..Len(coll) |->
        IF coll[i]._id = oid THEN [coll[i] EXCEPT !.is_active = FALSE] ELSE coll[i]]

\* C12: in serial use, soft_delete's write on an existing item sets is_active
\* to false whatever it was and changes nothing else, so a second write
\* changes nothing; the returned record is inactive; on an id that is not
\* stored (or malformed) the answer is 404 and the store is unchanged.
C12_SoftDelete ==
    [][/\ (inflight[1].pc = "idle" /\ inflight'[1].pc = "soft_delete_find") =>
             LET oid == ObjectId(inflight'[1].item_id)
             IN  /\ oid \in Oids(store)
                 /\ store' = C12_Deactivated(store, oid)
                 /\ C12_Deactivated(store', oid) = store'
                 /\ \A i \in 1..Len(store') :
                       store'[i]._id = oid => store'[i].is_active = FALSE
       /\ (inflight[1].pc = "soft_delete_find" /\ resp'.status = 200) =>
             /\ store' = store
             /\ TheValue(resp'.result).is_active = FALSE
             /\ resp'.result = get_by_id(store, resp'.item_id)
       /\ (inflight[1].pc = "idle" /\ resp'.op = "soft_delete") =>
             /\ resp'.status = 404
             /\ resp'.result = None
             /\ store' = store
             /\ \/ ~is_valid(resp'.item_id)
                \/ ObjectId(resp'.item_id) \notin Oids(store)]_vars

\* an item that carries a description was deactivated while another item
\* stayed active
C12_Witness ==
    /\ resp.op = "soft_delete"
    /\ resp.status = 200
    /\ TheValue(resp.result).description # None
    /\ TheValue(resp.result).is_active = FALSE
    /\ Len(store) = 2
    /\ \E i \in 1..2 : store[i].is_active

\* a create body the claim names: empty name, price 0 or negative, or
\* negative quantity
C13_BadBody(body) ==
    body.name = <<>> \/ body.price <= 0 \/ body.quantity < 0

\* a patch that carries a field violating its constraint
C13_BadPatch(patch) ==
    \/ patch.name # None /\ Len(TheValue(patch.name)) \notin 1..100
    \/ patch.description # None /\ Len(TheValue(patch.description)) > 500
    \/ patch.price # None /\ TheValue(patch.price) <= 0
    \/ patch.quantity # None /\ TheValue(patch.quantity) < 0
    \/ patch.category # None /\ Len(TheValue(patch.category)) > 50

\* C13: every answer to a create with an empty name, a price <= 0 or a
\* negative quantity, and to a PUT whose patch carries a violating field, is
\* 422, and the step that answers leaves the store unchanged.
C13_InvalidRejected ==
    [][/\ (resp'.op = "create" /\ C13_BadBody(resp'.body)) =>
             /\ resp'.status = 422
             /\ resp'.result = None
             /\ store' = store
             /\ inflight' = inflight
       /\ (resp'.op = "update" /\ C13_BadPatch(resp'.patch)) =>
             /\ resp'.status = 422
             /\ resp'.result = None
             /\ store' = store
             /\ inflight' = inflight]_vars

\* a PUT with price 0 for a stored item was rejected
C13_Witness ==
    /\ resp.op = "update"
    /\ resp.status = 422
    /\ resp.patch.price = Some(0)
    /\ is_valid(resp.item_id)
    /\ ObjectId(resp.item_id) \in Oids(store)
    /\ Len(store) = 2

\* the id is malformed, or well-formed and matching no stored item
C14_NoItem(item_id) ==
    ~is_valid(item_id) \/ ObjectId(item_id) \notin Oids(store)

\* C14: in serial use, GET, PUT with a valid non-empty patch, PATCH
\* .../deactivate and DELETE on an id that is malformed or matches no item
\* answer at once, with 404 in both cases, and leave the store unchanged.
C14_MissingAndMalformedAre404 ==
    [][inflight[1].pc = "idle" =>
          /\ (/\ resp'.op \in {"get_by_id", "delete", "soft_delete"}
              /\ C14_NoItem(resp'.item_id)) =>
                /\ resp'.status = 404
                /\ store' = store
          /\ (/\ resp'.op = "update"
              /\ ~C13_BadPatch(resp'.patch)
              /\ resp'.patch # EmptyPatch
              /\ C14_NoItem(resp'.item_id)) =>
                /\ resp'.status = 404
                /\ store' = store
          /\ inflight'[1].pc \in {"update_find", "soft_delete_find"} =>
                ~C14_NoItem(inflight'[1].item_id)]_vars

\* a DELETE of a malformed id was answered 404 with two items stored
C14_Witness ==
    /\ resp.op = "delete"
    /\ resp.status = 404
    /\ ~is_valid(resp.item_id)
    /\ Len(store) = 2

C15_Endpoints == {"get_by_id", "update", "delete", "soft_delete"}

\* the endpoint, sent item_id now, can end its step otherwise than by
\* answering st
C15_CanAnswerOtherThan(endpoint, item_id, st) ==
    CASE endpoint = "get_by_id" ->
            ENABLED (get_item(1, item_id) /\ (resp'.op = "none" \/ resp'.status # st))
      [] endpoint = "update" ->
            \E patch \in ValidPatches \cup InvalidPatches :
               /\ ~C13_BadPatch(patch)
               /\ patch # EmptyPatch
               /\ ENABLED (update_item(1, item_id, patch)
                           /\ (resp'.op = "none" \/ resp'.status # st))
      [] endpoint = "delete" ->
            ENABLED (delete_item(1, item_id) /\ (resp'.op = "none" \/ resp'.status # st))
      [] endpoint = "soft_delete" ->
            ENABLED (deactivate_item(1, item_id)
                     /\ (resp'.op = "none" \/ resp'.status # st))

\* C15 as claimed: there is an id-addressed endpoint that answers every
\* malformed id with 400.
C15_SomeEndpointAnswers400 ==
    inflight[1].pc = "idle" =>
        \E endpoint \in C15_Endpoints :
           \A item_id \in MalformedIds : ~C15_CanAnswerOtherThan(endpoint, item_id, 400)

\* C15 amended: every id-addressed endpoint answers every malformed id with
\* 404, in every state; none answers 400.
C15_EveryEndpointAnswers404 ==
    inflight[1].pc = "idle" =>
        \A endpoint \in C15_Endpoints :
           \A item_id \in MalformedIds : ~C15_CanAnswerOtherThan(endpoint, item_id, 404)

\* a PUT with a valid non-empty patch on a malformed id was answered 404
\* while items were stored
C15_Witness ==
    /\ resp.op = "update"
    /\ ~is_valid(resp.item_id)
    /\ resp.patch # EmptyPatch
    /\ ~C13_BadPatch(resp.patch)
    /\ resp.status = 404
    /\ Len(store) = 2

\* C16: get_database raises in every state in which no connect_db has
\* completed with a successful ping, also after a connect_db whose ping
\* failed.
C16_RaisesUntilConnected ==
    (/\ resp.op = "get_database"
     /\ \A k \in 1..Len(clients) : ~clients[k].ping_ok) =>
        resp.raised

\* C17: close_db called when the client is already closed, or when none was
\* ever made, closes no client again and leaves the fields as they were.
C17_CloseIsNoOpOnceClosed ==
    [][(/\ resp'.op = "close_db"
        /\ \/ client = None
           \/ clients[TheValue(client)].closes > 0) =>
          /\ clients' = clients
          /\ client' = client
          /\ database' = database]_vars

\* C18: create, update and soft_delete never raise because the record is
\* missing: when they return no record the answer is not-found (or the
\* validation failure), never the 500 of an exception, also when the record
\* was deleted between their write and their re-read.
C18_MissingIsNotFound ==
    (/\ resp.op \in {"create", "update", "soft_delete"}
     /\ resp.result = None) =>
        resp.status \in {404, 422}

\* C20 as claimed: the record an update returns is the item with the given
\* id, and each field present in the patch has the patch's value in it.
C20_ReturnedRecordHasPatch ==
    (resp.op = "update" /\ resp.result # None) =>
        /\ TheValue(resp.result)._id = resp.item_id
        /\ \A f \in Fields :
              resp.patch[f] # None =>
                 TheValue(resp.result)[f] = update_data(resp.patch)[f]

\* C20 amended: the record an update returns is the item with the given id
\* as the store holds it at the re-read, and each field present in the patch
\* has the patch's value in it when no other request's update, deactivation
\* or bulk price update wrote the item between the write and the re-read.
C20_ReturnedRecordHasPatchUnlessRaced ==
    [][\A p \in Procs :
          (/\ inflight[p].pc = "update_find"
           /\ inflight'[p].pc = "idle"
           /\ resp'.result # None) =>
             /\ TheValue(resp'.result)._id = inflight[p].item_id
             /\ resp'.result = get_by_id(store, inflight[p].item_id)
             /\ ~inflight[p].raced =>
                   \A f \in Fields :
                      inflight[p].patch[f] # None =>
                         TheValue(resp'.result)[f] = update_data(inflight[p].patch)[f]]_vars

\* an update returned its record with the patched price while the other
\* request, which had written the item before it, was still in flight
C20_Witness ==
    /\ resp.op = "update"
    /\ resp.status = 200
    /\ resp.patch.price # None
    /\ TheValue(resp.result).price = TheValue(resp.patch.price)
    /\ \E q \in Procs :
          /\ inflight[q].pc = "update_find"
          /\ inflight[q].item_id = resp.item_id
          /\ inflight[q].raced

\* C19: a request that ends in a store failure has persisted nothing: in
\* serial use, when a create ends in a store failure, the document it
\* inserted, if it inserted one, is not in the store.
C19_FailedCreateInsertsNothing ==
    (resp.op = "create" /\ "failed" \in DOMAIN resp) =>
        \A oid \in resp.inserted_id : oid \notin Oids(store)

\* C21: a bulk price update by an accepted multiplier m leaves as many items
\* as there were, in the same order, each with its previous price times m
\* (the float product) and every other field as it was, and it returns the
\* number of items whose price it changed.
C21_BulkUpdatePrices ==
    [][(resp'.op = "bulk_update_prices" /\ resp'.status = 200) =>
          /\ Len(store') = Len(store)
          /\ \A i \in 1..Len(store) :
                /\ store'[i].price = FloatMul(store[i].price, resp'.multiplier)
                /\ store'[i]._id = store[i]._id
                /\ \A f \in Fields \ {"price"} : store'[i][f] = store[i][f]
          /\ resp'.modified_count =
                Cardinality({i \in 1..Len(store) : store'[i] # store[i]})]_vars

\* a bulk update by 0.5 has halved the price of one item to 0.5 and left the
\* other, whose price was already 0, unmodified
C21_Witness ==
    /\ resp.op = "bulk_update_prices"
    /\ resp.status = 200
    /\ resp.multiplier = 1
    /\ resp.modified_count = 1
    /\ Len(store) = 2
    /\ \E i, j \in 1..2 : store[i].price = 1 /\ store[j].price = 0

\* C22: a delete of a well-formed id returns true exactly when an item with
\* that id is in the store at that moment; then exactly that item is
\* removed, the others stay as they were, and no earlier delete of the id
\* had returned true; otherwise it answers 404 and the store is unchanged.
C22_Delete ==
    [][(resp'.op = "delete" /\ is_valid(resp'.item_id)) =>
          LET oid == ObjectId(resp'.item_id)
              Others(doc) == doc._id # oid
          IN  /\ resp'.result = (oid \in Oids(store))
              /\ resp'.result =>
                    /\ resp'.status = 204
                    /\ oid \notin removed
                    /\ Len(store') = Len(store) - 1
                    /\ store' = SelectSeq(store, Others)
              /\ ~resp'.result =>
                    /\ resp'.status = 404
                    /\ store' = store]_vars

\* a second delete of an id, sent while an update of that item is in
\* flight, has returned false after the first removed the item and left the
\* other item in the store
C22_Witness ==
    /\ resp.op = "delete"
    /\ resp.result = FALSE
    /\ ObjectId(resp.item_id) \in removed
    /\ Len(store) = 1
    /\ \E p \in Procs : /\ inflight[p].pc = "update_find"
                        /\ inflight[p].item_id = resp.item_id

C24_Operations == {"get_by_id", "update", "delete", "soft_delete"}

\* C24: get_by_id, update, delete and soft_delete called with a malformed
\* id return their not-found signal (None, None, False, None) without
\* issuing a store call, and leave the store unchanged.
C24_MalformedIdNoStoreCall ==
    [][(resp'.op \in C24_Operations /\ ~is_valid(resp'.item_id)) =>
          /\ resp'.store_calls = 0
          /\ resp'.result = (IF resp'.op = "delete" THEN FALSE ELSE None)
          /\ store' = store]_vars

\* an update with a valid, non-empty patch and a malformed id has returned
\* None over a store that holds an item
C24_Witness ==
    /\ resp.op = "update"
    /\ ~is_valid(resp.item_id)
    /\ ItemUpdateValid(resp.patch)
    /\ ~NothingToUpdate(resp.patch)
    /\ resp.store_calls = 0
    /\ resp.result = None
    /\ store # <<>>

\* the fields a patch carries
C25_Carried(patch) == {f \in Fields : patch[f] # None}

C25_HasPatch(doc, patch) ==
    \A f \in C25_Carried(patch) :
       doc[f] = IF f \in OptionalFields THEN patch[f] ELSE TheValue(patch[f])

\* C25: when an update writes an item while another update of the same
\* item is in flight whose write is the latest on that item, and the two
\* patches carry disjoint fields, the stored item holds the values of both
\* patches after the write, whichever of the two requests wrote first.
C25_DisjointUpdatesBothApply ==
    [][\A p, q \in Procs :
          (/\ p # q
           /\ inflight[p].pc = "update_find"
           /\ ~inflight[p].raced
           /\ inflight[q].pc = "idle"
           /\ inflight'[q].pc = "update_find"
           /\ inflight'[q].item_id = inflight[p].item_id
           /\ C25_Carried(inflight[p].patch) \cap C25_Carried(inflight'[q].patch) = {})
          => LET oid == ObjectId(inflight[p].item_id)
             IN  /\ oid \in Oids(store')
                 /\ C25_HasPatch(store'[Index(store', oid)], inflight[p].patch)
                 /\ C25_HasPatch(store'[Index(store', oid)], inflight'[q].patch)]_vars

\* a price update and a quantity update of one item are both in flight,
\* both have written, and the item holds the new price and the new quantity
C25_Witness ==
    \E p, q \in Procs :
       /\ p # q
       /\ inflight[p].pc = "update_find"
       /\ inflight[q].pc = "update_find"
       /\ inflight[p].item_id = inflight[q].item_id
       /\ C25_Carried(inflight[p].patch) = {"price"}
       /\ C25_Carried(inflight[q].patch) = {"quantity"}
       /\ ObjectId(inflight[p].item_id) \in Oids(store)
       /\ LET doc == store[Index(store, ObjectId(inflight[p].item_id))]
          IN  /\ doc.price = FloatScale
              /\ doc.quantity = 2

\* the step is create's insert
C26_IsCreate == inflight[1].pc = "idle" /\ inflight'[1].pc = "create_find"

\* the step is a delete that returned true
C26_IsDelete == resp'.op = "delete" /\ resp'.result = TRUE

\* the step is the write of update, of soft_delete or of bulk_update_prices
C26_IsFieldWrite ==
    \/ inflight[1].pc = "idle" /\ inflight'[1].pc \in {"update_find", "soft_delete_find"}
    \/ resp'.op = "bulk_update_prices" /\ resp'.status = 200

\* C26: one request at a time, create's insert adds exactly one id, never
\* handed out before; a delete that returns true removes exactly its id; no
\* other step changes the set of stored ids, and a step that is not the
\* write of create, delete, update, soft_delete or bulk_update_prices leaves
\* the whole store unchanged.
C26_IdsChangeOnlyByCreateAndDelete ==
    [][/\ C26_IsCreate =>
             /\ Oids(store') = Oids(store) \cup {inflight'[1].inserted_id}
             /\ inflight'[1].inserted_id \notin Oids(store) \cup removed
             /\ Len(store') = Len(store) + 1
       /\ C26_IsDelete =>
             /\ ObjectId(resp'.item_id) \in Oids(store)
             /\ Oids(store') = Oids(store) \ {ObjectId(resp'.item_id)}
             /\ Len(store') = Len(store) - 1
       /\ ~(C26_IsCreate \/ C26_IsDelete) =>
             /\ Oids(store') = Oids(store)
             /\ Len(store') = Len(store)
       /\ ~(C26_IsCreate \/ C26_IsDelete \/ C26_IsFieldWrite) =>
             store' = store]_vars

\* a bulk update has modified two items, one of them created after an
\* earlier item was deleted, and the ids stored are the ones stored before
C26_Witness ==
    /\ resp.op = "bulk_update_prices"
    /\ resp.modified_count = 2
    /\ removed # {}
    /\ Oids(store) = {2, 3}

\* C27: a patch field that is None (absent, or an explicit null: model_dump
\* renders both as None) is not written, so no step turns a stored item's
\* description or category from a value into None; a patch whose fields are
\* all None is answered 404 without a store call and leaves the store
\* unchanged; a patch with is_active = false is written: when its item is
\* in the store the item is inactive after the write, and the request is
\* answered 404 at once only when no item has its id.
C27_NullIsAbsent ==
    [][/\ \A i \in 1..Len(store), j \in 1..Len(store') :
             store'[j]._id = store[i]._id =>
                \A f \in OptionalFields :
                   store[i][f] # None => store'[j][f] # None
       /\ (resp'.op = "update" /\ \A f \in Fields : resp'.patch[f] = None) =>
             /\ resp'.status = 404
             /\ resp'.result = None
             /\ resp'.store_calls = 0
             /\ store' = store
       /\ (/\ inflight[1].pc = "idle"
           /\ inflight'[1].pc = "update_find"
           /\ inflight'[1].patch.is_active = Some(FALSE)) =>
             LET oid == ObjectId(inflight'[1].item_id)
             IN  /\ oid \in Oids(store')
                 /\ store'[Index(store', oid)].is_active = FALSE
       /\ (/\ inflight[1].pc = "idle"
           /\ resp'.op = "update"
           /\ is_valid(resp'.item_id)
           /\ resp'.patch.is_active = Some(FALSE)) =>
             /\ resp'.status = 404
             /\ resp'.store_calls = 1
             /\ ObjectId(resp'.item_id) \notin Oids(store)]_vars

\* an update whose patch carries is_active = false and None elsewhere has
\* returned the item inactive, with the description and the category it had
C27_Witness ==
    /\ resp.op = "update"
    /\ resp.status = 200
    /\ resp.patch = Body(None, None, None, None, None, Some(FALSE))
    /\ TheValue(resp.result).is_active = FALSE
    /\ TheValue(resp.result).description = Some(Text1)
    /\ TheValue(resp.result).category = Some(Cat1)

\* the step is a step of a request handler
C23_IsRequestStep == resp'.op \notin {"connect_db", "close_db"}

\* C23: the application makes one client, at startup, and closes it once,
\* at shutdown; every step of a request handler runs with Database.database
\* and Database.client set to a client whose startup ping succeeded and
\* which has not been closed, so no request is served when the ping failed
\* and none after close_db has run.
C23_ConnectionLifecycle ==
    [][/\ Len(clients') <= 1
       /\ \A c \in 1..Len(clients') : clients'[c].closes <= 1
       /\ Len(clients') > Len(clients) => lifespan = "startup"
       /\ (\E c \in 1..Len(clients) : clients'[c].closes > clients[c].closes) =>
             lifespan' = "shutdown"
       /\ C23_IsRequestStep =>
             /\ database # None
             /\ client # None
             /\ clients[TheValue(client)].ping_ok
             /\ clients[TheValue(client)].closes = 0]_vars

\* the application has shut down after serving requests: its one client is
\* closed once and an item is in the store
C23_Witness ==
    /\ lifespan = "shutdown"
    /\ resp.op = "close_db"
    /\ Len(clients) = 1
    /\ clients[1].closes = 1
    /\ store # <<>>

\* the startup ping failed: connect_db raised and the store was never used
C23_WitnessRaised ==
    /\ lifespan = "raised"
    /\ resp = [op |-> "connect_db", raised |-> TRUE]
    /\ store = <<>>

====
